------------------------------ MODULE Spec2Model ------------------------------
(***************************************************************************)
(* Model of mailbot.go: the poll loop Crawler.Run, the three source        *)
(* scrapers (Pastebin, Debian, Slexy), the Fetcher FetchPage, the          *)
(* Extractor GetMail and the candidate filter FreshFilter.                 *)
(*                                                                         *)
(* Go strings are modelled as sequences of one-character strings, so that  *)
(* the regular expressions and the strings.* calls are computed, not       *)
(* assumed.                                                                *)
(*                                                                         *)
(* Spec is the program; FairSpec and StuckSpec add the scheduling; and     *)
(* FilterSpec is a call of FreshFilter on its own, on lists of candidates. *)
(***************************************************************************)
EXTENDS Integers, Sequences, FiniteSets, TLC

NL == "\n"

Min(S) == CHOOSE x \in S : \A y \in S : x <= y

(***************************************************************************)
(* Bounds of the model.                                                    *)
(***************************************************************************)
\* Largest number of bytes the file may hold before the environment stops
\* returning documents that lead to a write.
MaxLog == 2

\* Longest list of candidates FreshFilter is called with on its own.
MaxMails == 3

(***************************************************************************)
(* Character classes of the regular expressions                            *)
(***************************************************************************)
Lower == {"a","b","c","d","e","f","g","h","i","j","k","l","m",
          "n","o","p","q","r","s","t","u","v","w","x","y","z"}
Digit == {"0","1","2","3","4","5","6","7","8","9"}
\* \w of Go's regexp (RE2): [0-9A-Za-z_]; the model's texts are lower case.
Word == Lower \cup Digit \cup {"_"}
\* [\w.]
WordDot == Word \cup {"."}

(***************************************************************************)
(* package strings                                                         *)
(***************************************************************************)
\* p occurs in s at position i
HasPrefixAt(s, i, p) ==
    /\ i >= 1
    /\ i + Len(p) - 1 <= Len(s)
    /\ \A k \in 1..Len(p) : s[i + k - 1] = p[k]

\* first position >= from at which p occurs in s, 0 when there is none
IndexFrom(s, p, from) ==
    LET hits == {i \in from..(Len(s) - Len(p) + 1) : HasPrefixAt(s, i, p)}
    IN  IF hits = {} THEN 0 ELSE Min(hits)

\* strings.Contains
Contains(s, sub) == IndexFrom(s, sub, 1) # 0

\* strings.Split(s, sep), sep non-empty
RECURSIVE Split(_, _)
Split(s, sep) ==
    LET i == IndexFrom(s, sep, 1)
    IN  IF i = 0 THEN <<s>>
        ELSE <<SubSeq(s, 1, i - 1)>> \o Split(SubSeq(s, i + Len(sep), Len(s)), sep)

\* strings.Replace(s, old, new, -1), old non-empty
RECURSIVE Replace(_, _, _)
Replace(s, old, new) ==
    LET i == IndexFrom(s, old, 1)
    IN  IF i = 0 THEN s
        ELSE SubSeq(s, 1, i - 1) \o new
                 \o Replace(SubSeq(s, i + Len(old), Len(s)), old, new)

\* strings.Join(a, sep)
RECURSIVE Join(_, _)
Join(a, sep) ==
    IF a = <<>> THEN <<>>
    ELSE IF Len(a) = 1 THEN a[1]
    ELSE a[1] \o sep \o Join(Tail(a), sep)

(***************************************************************************)
(* package regexp: FindAllString(text, -1) for the two shapes of pattern   *)
(* the program compiles.  A nil result is the empty sequence.              *)
(***************************************************************************)
\* last position of the run of characters of class that starts at i
RunEnd(s, i, class) ==
    LET stops == {j \in i..Len(s) : s[j] \notin class}
    IN  IF stops = {} THEN Len(s) ELSE Min(stops) - 1

\* the match of a pattern [\w.]+@[\w.]+, whose first part takes dots too
MailMatchEndDotted(s, i) ==
    IF i > Len(s) \/ s[i] \notin WordDot THEN 0
    ELSE LET j == RunEnd(s, i, WordDot)
         IN  IF j + 2 <= Len(s) /\ s[j + 1] = "@" /\ s[j + 2] \in WordDot
             THEN RunEnd(s, j + 2, WordDot)
             ELSE 0

\* end of the match of [\w]+@[\w.]+ starting at i, 0 when there is none
MailMatchEnd(s, i) ==
    IF i > Len(s) \/ s[i] \notin Word THEN 0
    ELSE LET j == RunEnd(s, i, Word)
         IN  IF j + 2 <= Len(s) /\ s[j + 1] = "@" /\ s[j + 2] \in WordDot
             THEN RunEnd(s, j + 2, WordDot)
             ELSE 0

\* leftmost non-overlapping matches of [\w]+@[\w.]+ in s from position from
RECURSIVE FindAllMail(_, _)
FindAllMail(s, from) ==
    LET starts == {i \in from..Len(s) : MailMatchEnd(s, i) # 0}
    IN  IF starts = {} THEN <<>>
        ELSE LET i == Min(starts)
                 e == MailMatchEnd(s, i)
             IN  <<SubSeq(s, i, e)>> \o FindAllMail(s, e + 1)

\* end of the match of pre(.*?)post starting at i, 0 when there is none;
\* . does not match a newline and .*? takes the nearest post
LazyMatchEnd(s, i, pre, post) ==
    IF ~HasPrefixAt(s, i, pre) THEN 0
    ELSE LET b  == i + Len(pre)
             ks == {k \in b..Len(s) :
                       /\ HasPrefixAt(s, k, post)
                       /\ \A m \in b..(k - 1) : s[m] # NL}
         IN  IF ks = {} THEN 0 ELSE Min(ks) + Len(post) - 1

\* leftmost non-overlapping matches of pre(.*?)post in s from position from
RECURSIVE FindAllLazy(_, _, _, _)
FindAllLazy(s, from, pre, post) ==
    LET starts == {i \in from..Len(s) : LazyMatchEnd(s, i, pre, post) # 0}
    IN  IF starts = {} THEN <<>>
        ELSE LET i == Min(starts)
                 e == LazyMatchEnd(s, i, pre, post)
             IN  <<SubSeq(s, i, e)>> \o FindAllLazy(s, e + 1, pre, post)

(***************************************************************************)
(* The candidate filter                                                    *)
(***************************************************************************)
blacklist == << <<"f", "o", "r", "m", "o", "r", "e", "r", "@", "d", "e", "b", "i", "a", "n", ".", "o", "r", "g">>,
                <<"u", "s", "e", "r", "@", "u", "s", "e", "r">> >>

\* the blacklist loop of FreshFilter: the lines it prints for mail
RECURSIVE BlackPrints(_, _)
BlackPrints(mail, k) ==
    IF k > Len(blacklist) THEN <<>>
    ELSE (IF mail = blacklist[k]
          THEN <<mail \o <<" ">> \o blacklist[k] \o <<NL>>>>
          ELSE <<>>) \o BlackPrints(mail, k + 1)

\* a filter whose test for "@." is missing
StructuralWithoutAtDot(mail) ==
    /\ ~Contains(mail, <<".", "p", "n", "g">>)
    /\ ~Contains(mail, <<".", "g", "i", "f">>)
    /\ ~Contains(mail, <<".", "j", "p", "g">>)
    /\ ~Contains(mail, <<".", "_">>)
    /\ Contains(mail, <<".">>)

\* one iteration of FreshFilter's loop reaches the blacklist loop
Structural(mail) ==
    /\ ~Contains(mail, <<".", "p", "n", "g">>)
    /\ ~Contains(mail, <<".", "g", "i", "f">>)
    /\ ~Contains(mail, <<".", "j", "p", "g">>)
    /\ ~Contains(mail, <<".", "_">>)
    /\ ~Contains(mail, <<"@", ".">>)
    /\ Contains(mail, <<".">>)

\* the flag blocked after the blacklist loop
Blocked(mail) == \E k \in 1..Len(blacklist) : mail = blacklist[k]

\* FreshFilter(mails): fresh is the list returned, printed the lines it
\* writes to standard output on the way
RECURSIVE FreshFilter(_)
FreshFilter(mails) ==
    IF mails = <<>> THEN [fresh |-> <<>>, printed |-> <<>>]
    ELSE LET mail == Head(mails)
             rest == FreshFilter(Tail(mails))
         IN  IF ~Structural(mail) THEN rest
             ELSE [fresh   |-> (IF Blocked(mail) THEN <<>> ELSE <<mail>>)
                                   \o rest.fresh,
                   printed |-> BlackPrints(mail, 1) \o rest.printed]

(***************************************************************************)
(* The three source scrapers differ in their patterns and URLs only        *)
(***************************************************************************)
Sources == {"Pastebin", "Debian", "Slexy"}

\* the flag of Crawler.flags that enables the source
Enabled(fl, s) ==
    CASE s = "Pastebin" -> fl.pastebin
      [] s = "Debian"   -> fl.debian
      [] s = "Slexy"    -> fl.slexy

\* r: the text before and after (.*?) in the source's pattern
Pre(s) ==
    CASE s = "Pastebin" -> <<"c", "l", "a", "s", "s", "=", "\"", "i", "_", "p", "0", "\"", " ", "a", "l", "t", "=", "\"", "\"", " ", "/", ">", "<", "a", " ", "h", "r", "e", "f", "=", "\"">>
      [] s = "Debian"   -> <<"<", "l", "i", ">", "<", "a", " ", "h", "r", "e", "f", "=", "'", "/", "/", "p", "a", "s", "t", "e", ".", "d", "e", "b", "i", "a", "n", ".", "n", "e", "t">>
      [] s = "Slexy"    -> <<"/", "v", "i", "e", "w">>

Post(s) ==
    CASE s = "Pastebin" -> <<"\"", ">">>
      [] s = "Debian"   -> <<"'", ">">>
      [] s = "Slexy"    -> <<"\"", ">">>

\* url
ListingURL(s) ==
    CASE s = "Pastebin" -> <<"h", "t", "t", "p", "s", ":", "/", "/", "p", "a", "s", "t", "e", "b", "i", "n", ".", "c", "o", "m", "/", "a", "r", "c", "h", "i", "v", "e">>
      [] s = "Debian"   -> <<"h", "t", "t", "p", ":", "/", "/", "p", "a", "s", "t", "e", ".", "d", "e", "b", "i", "a", "n", ".", "n", "e", "t">>
      [] s = "Slexy"    -> <<"h", "t", "t", "p", ":", "/", "/", "s", "l", "e", "x", "y", ".", "o", "r", "g", "/", "r", "e", "c", "e", "n", "t">>

\* the separator of strings.Split(v, ...)
SplitSep(s) ==
    CASE s = "Pastebin" -> <<"=", "\"">>
      [] s = "Debian"   -> <<"<", "l", "i", ">", "<", "a", " ", "h", "r", "e", "f", "=", "'", "/", "/">>
      [] s = "Slexy"    -> <<"/", "v", "i", "e", "w">>

\* len(parser) < MinParts(s) is the parse failure
MinParts(s) == IF s = "Pastebin" THEN 4 ELSE 2

\* the element of parser the raw link is built from (parser[3], parser[1]),
\* counted from 1
LinkPart(s) == IF s = "Pastebin" THEN 4 ELSE 2

RawPrefix(s) ==
    CASE s = "Pastebin" -> <<"h", "t", "t", "p", "s", ":", "/", "/", "p", "a", "s", "t", "e", "b", "i", "n", ".", "c", "o", "m", "/", "r", "a", "w">>
      [] s = "Debian"   -> <<"h", "t", "t", "p", ":", "/", "/">>
      [] s = "Slexy"    -> <<"h", "t", "t", "p", ":", "/", "/", "s", "l", "e", "x", "y", ".", "o", "r", "g", "/", "r", "a", "w">>

\* parser of one fragment v
Parser(s, v) == Split(v, SplitSep(s))

\* the parse failure of one fragment v
CantParse(s, v) == Len(Parser(s, v)) < MinParts(s)

\* rawlink of one fragment v
RawLink(s, v) ==
    RawPrefix(s) \o Replace(Parser(s, v)[LinkPart(s)], Post(s), <<>>)

\* raws := r.FindAllString(page, -1)
Raws(s, page) == FindAllLazy(page, 1, Pre(s), Post(s))

(***************************************************************************)
(* Errors and report lines                                                 *)
(***************************************************************************)
nil == "nil"
GetErr == "Get: connection refused"
ReadErr == "unexpected EOF"

(***************************************************************************)
(* What the network can answer.  An answer is the outcome of client.Get    *)
(* and of ioutil.ReadAll: get fails, or the body is read in full, or the   *)
(* read fails after data has been read.                                    *)
(***************************************************************************)
Frag1(s) ==
    CASE s = "Pastebin" -> <<"c", "l", "a", "s", "s", "=", "\"", "i", "_", "p", "0", "\"", " ", "a", "l", "t", "=", "\"", "\"", " ", "/", ">", "<", "a", " ", "h", "r", "e", "f", "=", "\"", "/", "a", "b", "c", "1", "2", "3", "\"", ">">>
      [] s = "Debian"   -> <<"<", "l", "i", ">", "<", "a", " ", "h", "r", "e", "f", "=", "'", "/", "/", "p", "a", "s", "t", "e", ".", "d", "e", "b", "i", "a", "n", ".", "n", "e", "t", "/", "1", "'", ">">>
      [] s = "Slexy"    -> <<"/", "v", "i", "e", "w", "/", "s", "1", "\"", ">">>

Frag2(s) ==
    CASE s = "Pastebin" -> <<"c", "l", "a", "s", "s", "=", "\"", "i", "_", "p", "0", "\"", " ", "a", "l", "t", "=", "\"", "\"", " ", "/", ">", "<", "a", " ", "h", "r", "e", "f", "=", "\"", "/", "x", "\"", ">">>
      [] s = "Debian"   -> <<"<", "l", "i", ">", "<", "a", " ", "h", "r", "e", "f", "=", "'", "/", "/", "p", "a", "s", "t", "e", ".", "d", "e", "b", "i", "a", "n", ".", "n", "e", "t", "/", "2", "'", ">">>
      [] s = "Slexy"    -> <<"/", "v", "i", "e", "w", "/", "s", "2", "\"", ">">>

GetFails == [get |-> FALSE, read |-> FALSE, data |-> <<>>]
Full(text) == [get |-> TRUE, read |-> TRUE, data |-> text]
Cut(text) == [get |-> TRUE, read |-> FALSE, data |-> text]

\* answers to the fetch of the listing page of s: the request fails, a page
\* without a fragment, a page with fragments, a page cut while it is read.
\* Pastebin is served one or two fragments, the other two sites one.
ListingAnswers(s) ==
    IF s = "Pastebin"
    THEN { GetFails,
           Full(<<"<", "h", "t", "m", "l", ">">>),
           Full(Frag1(s)),
           Full(Frag1(s) \o <<NL>> \o Frag2(s)),
           Cut(Frag1(s) \o <<NL>> \o SubSeq(Frag2(s), 1, 3)) }
    ELSE { GetFails,
           Full(<<"<", "h", "t", "m", "l", ">">>),
           Full(Frag1(s)) }

\* a document with an address and the name of an image before an "@"
Contact ==
    <<"c", "o", "n", "t", "a", "c", "t", " ", "m", "e", " ", "a", "t", " ", "a", "l", "i", "c", "e", "@", "e", "x", "a", "m", "p", "l", "e", ".", "c", "o", "m", " ", "o", "r", " ", "s", "e", "e", " ", "l", "o", "g", "o", ".", "p", "n", "g", "@", "s", "i", "t", "e", ".", "x">>

\* answers to the fetch of a document
DocAnswers ==
    { GetFails,
      Full(<<"h", "i">>),
      Full(<<"f", "o", "o", "@", "b", "a", "r">>),
      Full(<<"a", "@", "b", ".", "c", " ", "x", "@", "y", " ", "d", "@", "e", ".", "f">>),
      Cut(<<"a", "@", "b", ".", "c">>) }

\* answers to the fetch of the document at u: the site of Pastebin also
\* serves Contact as the document of the first fragment
DocAnswersAt(u) ==
    IF u = RawLink("Pastebin", Frag1("Pastebin"))
    THEN DocAnswers \cup {Full(Contact)}
    ELSE DocAnswers

(***************************************************************************)
(* State                                                                   *)
(***************************************************************************)
VARIABLES
    flags,      \* Crawler.flags, set once by init
    file,       \* the bytes of the log, c.file
    synced,     \* how many bytes of file the last c.file.Sync() made durable
    wg,         \* the counter of the sync.WaitGroup of Run
    mainpc,     \* where Run is: at the if of a source, or at wg.Wait()
    pc,         \* where each source's goroutine is
    url,        \* the URL of the FetchPage call in flight
    raws,       \* raws of the goroutine
    idx,        \* the fragment of raws the loop is at, from 1
    doc,        \* page of the loop body: the document handed to GetMail
    out,        \* what the goroutine wrote to standard output this round
    errs,       \* the lines the goroutine reported (standard error) this round
    wrote,      \* the strings the goroutine wrote to c.file this round
    entry,      \* lengths of out, errs, wrote when the current GetMail began
    listing,    \* what FetchPage returned for the listing page this round
    ndoc,       \* FetchPage calls for documents begun this round
    nget,       \* GetMail calls begun this round
    started,    \* how many times Run started the source this round
    dones,      \* how many times the goroutine called wg.Done() this round
    stuck,      \* the sources whose FetchPage call in flight never returns
    result,     \* page, err of the loop body or of the listing: what the last
                \* FetchPage call of the goroutine returned, and what it reported
    fetched,    \* the FetchPage calls for documents that returned this round
    filtered,   \* fresh of the GetMail call the goroutine is in
    unclosed,   \* resp.Body values the goroutine got this round and did not Close
    call        \* a call FreshFilter(mails) on its own, and what it returned

vars == <<flags, file, synced, wg, mainpc, pc, url, raws, idx, doc, out,
          errs, wrote, entry, listing, ndoc, nget, started, dones, stuck,
          result, fetched, filtered, unclosed, call>>

NoResult == [page |-> <<>>, err |-> "-"]
NoEntry == [out |-> 0, errs |-> 0, wrote |-> 0]
\* no FetchPage call of the goroutine has returned values still in scope
NoReturn == [page |-> <<>>, err |-> "-", reports |-> <<>>]
\* no call of FreshFilter on its own
NoCall == [mails |-> <<>>, returned |-> FALSE, fresh |-> <<>>, printed |-> <<>>]

Flags == [printToStdout : BOOLEAN, verbose : BOOLEAN,
          pastebin : BOOLEAN, debian : BOOLEAN, slexy : BOOLEAN]

\* The state when main calls Run: the flags are parsed, the log file is open
\* (a run in which os.OpenFile failed writes nothing at all and is not
\* modelled), no goroutine exists.  The log starts empty; what an earlier
\* run left in it would stand before everything written here.
Constructed ==
    /\ flags \in Flags
    /\ file = <<>>
    /\ synced = 0
    /\ wg = 0
    /\ mainpc = "Pastebin"
    /\ pc = [s \in Sources |-> "idle"]
    /\ url = [s \in Sources |-> <<>>]
    /\ raws = [s \in Sources |-> <<>>]
    /\ idx = [s \in Sources |-> 0]
    /\ doc = [s \in Sources |-> <<>>]
    /\ out = [s \in Sources |-> <<>>]
    /\ errs = [s \in Sources |-> <<>>]
    /\ wrote = [s \in Sources |-> <<>>]
    /\ entry = [s \in Sources |-> NoEntry]
    /\ listing = [s \in Sources |-> NoResult]
    /\ ndoc = [s \in Sources |-> 0]
    /\ nget = [s \in Sources |-> 0]
    /\ started = [s \in Sources |-> 0]
    /\ dones = [s \in Sources |-> 0]
    /\ stuck = {}
    /\ result = [s \in Sources |-> NoReturn]
    /\ fetched = [s \in Sources |-> <<>>]
    /\ filtered = [s \in Sources |-> <<>>]
    /\ unclosed = [s \in Sources |-> 0]

Init == Constructed /\ call = NoCall

(***************************************************************************)
(* FetchPage                                                               *)
(***************************************************************************)
\* what FetchPage prints before the request
FetchEcho(u) ==
    IF flags.verbose THEN << <<"F","e","t","c","h","i","n","g",":"," ">> \o u \o <<NL>> >>
    ELSE <<>>

\* what FetchPage returns and reports for an answer of the network
FetchPage(answer) ==
    IF ~answer.get
    THEN [page |-> <<>>, err |-> GetErr, reports |-> <<GetErr>>]
    ELSE [page |-> answer.data,
          err |-> IF answer.read THEN nil ELSE ReadErr,
          reports |-> <<>>]

\* resp of client.Get: the number of resp.Body values an answer hands out
Opened(answer) == IF answer.get THEN 1 ELSE 0

(***************************************************************************)
(* GetMail                                                                 *)
(***************************************************************************)
\* mails := r.FindAllString(page, -1)
Mails(page) == FindAllMail(page, 1)

\* the test of "if len(fresh) != 0 { return }"
ReturnsBeforeWrite(fresh) == Len(fresh) # 0

\* a GetMail that joins the unfiltered matches
ToWriteUnfiltered(mails, fresh) == Join(mails, <<NL>>)

\* toWrite := strings.Join(fresh, "\n")
ToWrite(mails, fresh) == Join(fresh, <<NL>>)

(***************************************************************************)
(* The texts the network can make FetchPage return are finitely many, and  *)
(* what the program computes from each is tabulated here, once.            *)
(***************************************************************************)
ListingPages(s) == {FetchPage(answer).page : answer \in ListingAnswers(s)}
DocPages == {FetchPage(answer).page : answer \in DocAnswers \cup {Full(Contact)}}

\* raws of the scraper of s for each listing page
RawsOf == [s \in Sources |-> [page \in ListingPages(s) |-> Raws(s, page)]]

Fragments(s) ==
    UNION {{RawsOf[s][page][i] : i \in 1..Len(RawsOf[s][page])} :
              page \in ListingPages(s)}

\* the answers to the fetch of the document of each fragment
DocAnswersOf ==
    [s \in Sources |->
        [v \in Fragments(s) |-> DocAnswersAt(RawLink(s, v))]]

\* the loop body of the scraper of s up to FetchPage, for each fragment
ParsedOf ==
    [s \in Sources |->
        [v \in Fragments(s) |->
            [cant    |-> CantParse(s, v),
             rawlink |-> IF CantParse(s, v) THEN <<>> ELSE RawLink(s, v)]]]

\* mails, fresh, the lines FreshFilter prints, and toWrite of GetMail(page)
GetMailOf ==
    [page \in DocPages |->
        LET mails == Mails(page)
            ff == FreshFilter(mails)
        IN  [mails   |-> mails,
             fresh   |-> ff.fresh,
             printed |-> ff.printed,
             toWrite |-> ToWrite(mails, ff.fresh)]]

\* toWrite of the goroutine of s, which is inside GetMail(doc[s])
toWriteOf(s) == GetMailOf[doc[s]].toWrite

(***************************************************************************)
(* Run                                                                     *)
(***************************************************************************)
\* the statement after the if of source s in the loop body
After(s) ==
    CASE s = "Pastebin" -> "Debian"
      [] s = "Debian"   -> "Slexy"
      [] s = "Slexy"    -> "wait"

\* if c.flags.<s> { wg.Add(1); go c.<s>(wg) }: the goroutine runs up to its
\* first FetchPage call, which blocks on the network
Go(s) ==
    /\ mainpc = s
    /\ mainpc' = After(s)
    /\ IF Enabled(flags, s)
       THEN /\ wg' = wg + 1
            /\ pc' = [pc EXCEPT ![s] = "listing"]
            /\ url' = [url EXCEPT ![s] = ListingURL(s)]
            /\ out' = [out EXCEPT ![s] = FetchEcho(ListingURL(s))]
            /\ started' = [started EXCEPT ![s] = @ + 1]
       ELSE UNCHANGED <<wg, pc, url, out, started>>
    /\ UNCHANGED <<flags, file, synced, raws, idx, doc, errs, wrote, entry,
                   listing, ndoc, nget, dones, stuck, result, fetched,
                   filtered, unclosed, call>>

\* the goroutines that have returned are gone, with the record of what they
\* did in the round
Gone(f, zero) == [s \in Sources |-> IF pc[s] = "done" THEN zero ELSE f[s]]

\* the for loop of Run starts over
NewRound ==
    /\ mainpc' = "Pastebin"
    /\ pc' = Gone(pc, "idle")
    /\ url' = Gone(url, <<>>)
    /\ raws' = Gone(raws, <<>>)
    /\ idx' = Gone(idx, 0)
    /\ doc' = Gone(doc, <<>>)
    /\ out' = Gone(out, <<>>)
    /\ errs' = Gone(errs, <<>>)
    /\ wrote' = Gone(wrote, <<>>)
    /\ entry' = Gone(entry, NoEntry)
    /\ listing' = Gone(listing, NoResult)
    /\ ndoc' = Gone(ndoc, 0)
    /\ nget' = Gone(nget, 0)
    /\ started' = [s \in Sources |-> 0]
    /\ dones' = Gone(dones, 0)
    /\ result' = Gone(result, NoReturn)
    /\ fetched' = Gone(fetched, <<>>)
    /\ filtered' = Gone(filtered, <<>>)
    /\ unclosed' = Gone(unclosed, 0)
    /\ UNCHANGED <<flags, file, synced, wg, stuck, call>>

\* a Run whose loop does not wait for the counter to reach zero
WaitNoBarrier ==
    /\ mainpc = "wait"
    /\ NewRound

\* wg.Wait() returns when the counter is zero, and the for loop starts over
Wait ==
    /\ mainpc = "wait"
    /\ wg = 0
    /\ NewRound

(***************************************************************************)
(* The source scrapers Pastebin, Debian, Slexy                             *)
(***************************************************************************)
\* a return of the goroutine on which wg.Done() is not called
DoneForgotten(s, o, e) ==
    /\ pc' = [pc EXCEPT ![s] = "done"]
    /\ out' = [out EXCEPT ![s] = o]
    /\ errs' = [errs EXCEPT ![s] = e]
    /\ UNCHANGED <<wg, dones, url, ndoc>>

\* return of the goroutine: the deferred wg.Done()
Done(s, o, e) ==
    /\ pc' = [pc EXCEPT ![s] = "done"]
    /\ wg' = wg - 1
    /\ dones' = [dones EXCEPT ![s] = @ + 1]
    /\ out' = [out EXCEPT ![s] = o]
    /\ errs' = [errs EXCEPT ![s] = e]
    /\ UNCHANGED <<url, ndoc>>

\* the loop "for _, v := range r" at fragment k, with o and e the goroutine's
\* output and reports so far: up to the next FetchPage call or the return
Range(s, r, k, o, e) ==
    /\ idx' = [idx EXCEPT ![s] = k]
    /\ IF k > Len(r)
       THEN Done(s, o, e)
       ELSE IF ParsedOf[s][r[k]].cant
       THEN Done(s, o, Append(e, "can't parse"))
       ELSE /\ pc' = [pc EXCEPT ![s] = "doc"]
            /\ url' = [url EXCEPT ![s] = ParsedOf[s][r[k]].rawlink]
            /\ out' = [out EXCEPT ![s] = o \o FetchEcho(ParsedOf[s][r[k]].rawlink)]
            /\ errs' = [errs EXCEPT ![s] = e]
            /\ ndoc' = [ndoc EXCEPT ![s] = @ + 1]
            /\ UNCHANGED <<wg, dones>>

\* what the scraper reports when FetchPage returned f for the listing page
ListingReports(f) == IF f.err # nil THEN <<f.err>> ELSE <<>>

\* a scraper that reports an empty listing whatever the flags
NoRawLinkAlways(fl) == <<"no raw link">>

\* if c.flags.verbose { report(errors.New("no raw link")) }
NoRawLink(fl) == IF fl.verbose THEN <<"no raw link">> ELSE <<>>

\* FetchPage(url) returns for the listing page: the function up to the next
\* FetchPage call or its return
Listing(s) ==
    /\ pc[s] = "listing"
    /\ s \notin stuck
    /\ \E answer \in ListingAnswers(s) :
         LET f == FetchPage(answer)
             e == errs[s] \o f.reports \o ListingReports(f)
             r == RawsOf[s][f.page]
         IN  /\ listing' = [listing EXCEPT ![s] = [page |-> f.page, err |-> f.err]]
             /\ result' = [result EXCEPT ![s] = f]
             /\ unclosed' = [unclosed EXCEPT ![s] = @ + Opened(answer)]
             /\ raws' = [raws EXCEPT ![s] = r]
             /\ IF r = <<>>
                THEN /\ Done(s, out[s], e \o NoRawLink(flags))
                     /\ UNCHANGED idx
                ELSE Range(s, r, 1, out[s], e)
    /\ UNCHANGED <<flags, file, synced, mainpc, doc, wrote, entry, nget,
                   started, stuck, fetched, filtered, call>>

\* writes to the file the model still has room for
Pending == Cardinality({s \in Sources : pc[s] = "write"})
Room == Len(file) + Pending < MaxLog

\* a loop body that takes only a failed request for a failed fetch
FetchFailedOnGet(f) == f.err = GetErr

\* the test "if err != nil" after page, err := c.FetchPage(rawlink)
FetchFailed(f) == f.err # nil

\* FetchPage(rawlink) returns for a document: on an error the function
\* reports and returns; otherwise GetMail(page) begins and runs up to its
\* return or to the write to the file
Document(s) ==
    /\ pc[s] = "doc"
    /\ s \notin stuck
    /\ \E answer \in DocAnswersOf[s][raws[s][idx[s]]] :
         LET f == FetchPage(answer)
             mails == GetMailOf[f.page].mails
             ff == GetMailOf[f.page]
         IN  /\ (answer.get /\ answer.read /\ mails # <<>>) => Room
             /\ result' = [result EXCEPT ![s] = f]
             /\ unclosed' = [unclosed EXCEPT ![s] = @ + Opened(answer)]
             /\ fetched' = [fetched EXCEPT ![s] =
                              Append(@, [v |-> idx[s], url |-> url[s], err |-> f.err,
                                         handed |-> IF FetchFailed(f) THEN 0
                                                    ELSE nget[s] + 1])]
             /\ IF FetchFailed(f)
                THEN /\ Done(s, out[s], errs[s] \o f.reports \o <<f.err>>)
                     /\ UNCHANGED <<doc, entry, nget, filtered>>
                ELSE /\ doc' = [doc EXCEPT ![s] = f.page]
                     /\ filtered' = [filtered EXCEPT ![s] = ff.fresh]
                     /\ nget' = [nget EXCEPT ![s] = @ + 1]
                     /\ entry' = [entry EXCEPT ![s] =
                                    [out |-> Len(out[s]), errs |-> Len(errs[s]),
                                     wrote |-> Len(wrote[s])]]
                     /\ UNCHANGED <<wg, url, ndoc, dones>>
                     /\ IF mails = <<>>
                        THEN /\ errs' = [errs EXCEPT ![s] =
                                  IF flags.verbose THEN Append(@, "no mail found") ELSE @]
                             /\ out' = out
                             /\ pc' = [pc EXCEPT ![s] = "ret"]
                        ELSE /\ errs' = errs
                             /\ out' = [out EXCEPT ![s] = @ \o ff.printed]
                             /\ pc' = [pc EXCEPT ![s] =
                                  IF ReturnsBeforeWrite(ff.fresh) THEN "ret" ELSE "write"]
    /\ UNCHANGED <<flags, file, synced, mainpc, raws, idx, wrote, listing,
                   started, stuck, call>>

\* c.file.WriteString(toWrite + "\n"): one append to the file
WriteString(s) ==
    /\ pc[s] = "write"
    /\ file' = file \o toWriteOf(s) \o <<NL>>
    /\ wrote' = [wrote EXCEPT ![s] = Append(@, toWriteOf(s) \o <<NL>>)]
    /\ pc' = [pc EXCEPT ![s] = IF flags.printToStdout THEN "echo" ELSE "sync"]
    /\ UNCHANGED <<flags, synced, wg, mainpc, url, raws, idx, doc, out, errs,
                   entry, listing, ndoc, nget, started, dones, stuck, result,
                   fetched, filtered, unclosed, call>>

\* fmt.Println(toWrite)
Println(s) ==
    /\ pc[s] = "echo"
    /\ out' = [out EXCEPT ![s] = Append(@, toWriteOf(s) \o <<NL>>)]
    /\ pc' = [pc EXCEPT ![s] = "sync"]
    /\ UNCHANGED <<flags, file, synced, wg, mainpc, url, raws, idx, doc, errs,
                   wrote, entry, listing, ndoc, nget, started, dones, stuck,
                   result, fetched, filtered, unclosed, call>>

\* c.file.Sync(), and GetMail returns
Sync(s) ==
    /\ pc[s] = "sync"
    /\ synced' = Len(file)
    /\ pc' = [pc EXCEPT ![s] = "ret"]
    /\ UNCHANGED <<flags, file, wg, mainpc, url, raws, idx, doc, out, errs,
                   wrote, entry, listing, ndoc, nget, started, dones, stuck,
                   result, fetched, filtered, unclosed, call>>

\* GetMail has returned: the loop goes on with the next fragment
Loop(s) ==
    /\ pc[s] = "ret"
    /\ Range(s, raws[s], idx[s] + 1, out[s], errs[s])
    /\ doc' = [doc EXCEPT ![s] = <<>>]
    /\ entry' = [entry EXCEPT ![s] = NoEntry]
    /\ result' = [result EXCEPT ![s] = NoReturn]
    /\ filtered' = [filtered EXCEPT ![s] = <<>>]
    /\ UNCHANGED <<flags, file, synced, mainpc, raws, wrote, listing, nget,
                   started, stuck, fetched, unclosed, call>>

\* the network never answers the request in flight of source s; the model
\* lets one call hang
Hang(s) ==
    /\ pc[s] \in {"listing", "doc"}
    /\ stuck = {}
    /\ stuck' = {s}
    /\ UNCHANGED <<flags, file, synced, wg, mainpc, pc, url, raws, idx, doc,
                   out, errs, wrote, entry, listing, ndoc, nget, started,
                   dones, result, fetched, filtered, unclosed, call>>

Next ==
    \/ \E s \in Sources : Go(s)
    \/ Wait
    \/ \E s \in Sources : Listing(s)
    \/ \E s \in Sources : Document(s)
    \/ \E s \in Sources : WriteString(s)
    \/ \E s \in Sources : Println(s)
    \/ \E s \in Sources : Sync(s)
    \/ \E s \in Sources : Loop(s)

Spec == Init /\ [][Next]_vars

\* The Go scheduler runs every goroutine that can run, and every request
\* is answered: some step is taken as long as one is possible.
FairSpec == Spec /\ WF_vars(Next)

\* One request may stay unanswered for ever; as long as a step of the
\* program or another answer is possible, one is taken.
StuckNext == Next \/ \E s \in Sources : Hang(s)
\* The flags -verbose and -stdout keep their default values here: they do
\* not bear on the scheduling.
StuckInit == Init /\ ~flags.verbose /\ flags.printToStdout
StuckSpec == StuckInit /\ [][StuckNext]_vars /\ WF_vars(Next)

(***************************************************************************)
(* FreshFilter on its own: one call on a list of candidates.               *)
(***************************************************************************)
\* the default values of the flags
DefaultFlags == [printToStdout |-> TRUE, verbose |-> FALSE,
                 pastebin |-> TRUE, debian |-> TRUE, slexy |-> TRUE]

\* texts tried as candidates
Tokens ==
    { <<"a", "@", "b", ".", "c">>,
      <<"b", "@", "c", ".", "d">>,
      <<"x", "@", "y">>,
      <<"a", "@", "b", ".", "p", "n", "g">>,
      <<"a", "@", "b", ".", "g", "i", "f">>,
      <<"a", "@", "b", ".", "j", "p", "g">>,
      <<"a", "@", "b", ".", "_", "c">>,
      <<"a", "@", ".", "b">>,
      <<"u", "s", "e", "r", "@", "u", "s", "e", "r">>,
      <<"u", "s", "e", "r", "@", "u", "s", "e", "r", ".", "x">>,
      <<"f", "o", "r", "m", "o", "r", "e", "r", "@", "d", "e", "b", "i", "a", "n", ".", "o", "r", "g">> }

\* the candidates GetMail can hand to FreshFilter: matches of [\w]+@[\w.]+
CandidateInputs == {c \in Tokens : Mails(c) = <<c>>}

\* mails is not nil when FreshFilter is called
CandidateLists == UNION {[1..n -> CandidateInputs] : n \in 1..MaxMails}

FilterInit ==
    /\ Constructed
    /\ flags = DefaultFlags
    /\ call \in {[NoCall EXCEPT !.mails = m] : m \in CandidateLists}

\* fresh := FreshFilter(mails)
CallFreshFilter ==
    /\ ~call.returned
    /\ call' = [call EXCEPT !.returned = TRUE,
                            !.fresh = FreshFilter(call.mails).fresh,
                            !.printed = FreshFilter(call.mails).printed]
    /\ UNCHANGED <<flags, file, synced, wg, mainpc, pc, url, raws, idx, doc,
                   out, errs, wrote, entry, listing, ndoc, nget, started,
                   dones, stuck, result, fetched, filtered, unclosed>>

FilterSpec == FilterInit /\ [][CallFreshFilter]_vars

(***************************************************************************)
(* What one GetMail call did: the part of the goroutine's writes, output   *)
(* and reports added since the call began.                                 *)
(***************************************************************************)
Since(seq, n) == SubSeq(seq, n + 1, Len(seq))
CallWrote(s) == Since(wrote[s], entry[s].wrote)
CallOut(s) == Since(out[s], entry[s].out)
CallErrs(s) == Since(errs[s], entry[s].errs)

\* the candidates of a document body and those the candidate filter keeps
Candidates(body) == Mails(body)
Survivors(body) == FreshFilter(Mails(body)).fresh

\* the batch the Sink is to receive for a body
Batch(body) == Join(Survivors(body), <<NL>>) \o <<NL>>

\* the goroutine of s has returned from GetMail(doc[s])
Returned(s) == pc[s] = "ret"

\* the lines of the log: the file is a sequence of lines each ended by NL
Lines(f) == IF f = <<>> THEN <<>> ELSE Split(SubSeq(f, 1, Len(f) - 1), <<NL>>)

C2_ExhaustionSilent ==
    \A s \in Sources :
        (Returned(s) /\ Candidates(doc[s]) # <<>> /\ Survivors(doc[s]) = <<>>) =>
            /\ CallWrote(s) = <<>>
            /\ CallOut(s) = <<>>
            /\ CallErrs(s) = <<>>

(***************************************************************************)
(* C3.  No line of the log is a candidate that the candidate filter        *)
(* rejects.                                                                *)
(***************************************************************************)
IsCandidate(line) == Mails(line) = <<line>>
Rejected(line) == FreshFilter(<<line>>).fresh = <<>>

C3_NoRejectedInLog ==
    \A i \in 1..Len(Lines(file)) :
        ~(IsCandidate(Lines(file)[i]) /\ Rejected(Lines(file)[i]))

\* a call whose candidates were rejected has written to the log
C3_Witness ==
    \E s \in Sources :
        /\ Returned(s)
        /\ \E i \in 1..Len(Candidates(doc[s])) : Rejected(Candidates(doc[s])[i])
        /\ CallWrote(s) # <<>>
        /\ file # <<>>

(***************************************************************************)
(* C4.  When N goroutines have each handed GetMail a document with         *)
(* surviving candidates, each batch is in the log as one contiguous run    *)
(* of lines, the runs of different goroutines do not overlap, and a log    *)
(* that holds nothing but these batches has exactly as many lines as the   *)
(* batches have.                                                           *)
(***************************************************************************)
Delivering == {s \in Sources : Returned(s) /\ Survivors(doc[s]) # <<>>}

\* the positions of the file at which the batch of s stands, from a line start
Places(s) ==
    {i \in 1..Len(file) :
        /\ HasPrefixAt(file, i, Batch(doc[s]))
        /\ (i = 1 \/ file[i - 1] = NL)}

\* the bytes of a sequence of strings
RECURSIVE LenSum(_)
LenSum(seq) == IF seq = <<>> THEN 0 ELSE Len(Head(seq)) + LenSum(Tail(seq))

\* the bytes the goroutines wrote to the file this round
BytesWrote ==
    LenSum(wrote["Pastebin"]) + LenSum(wrote["Debian"]) + LenSum(wrote["Slexy"])

\* the lines of the batch of s, when s is delivering one
BatchLines(s) == IF s \in Delivering THEN Len(Survivors(doc[s])) ELSE 0
DeliveredLines ==
    BatchLines("Pastebin") + BatchLines("Debian") + BatchLines("Slexy")

\* every byte of the file is of a batch delivered in this round
OnlyBatches ==
    /\ BytesWrote = Len(file)
    /\ \A s \in Sources \ Delivering : wrote[s] = <<>>
    /\ \A s \in Delivering : Len(wrote[s]) <= 1

C4_BatchesContiguous ==
    /\ \E place \in [Delivering -> 0..Len(file)] :
          /\ \A s \in Delivering : place[s] \in Places(s)
          /\ \A s, u \in Delivering :
                s # u =>
                    \/ place[s] + Len(Batch(doc[s])) <= place[u]
                    \/ place[u] + Len(Batch(doc[u])) <= place[s]
    /\ OnlyBatches => Len(Lines(file)) = DeliveredLines

(***************************************************************************)
(* C5.  No two goroutines are at the same time between the append to the   *)
(* file and the end of the flush.                                          *)
(***************************************************************************)
\* the goroutine has appended its batch and its flush has not completed
InWriteSection(s) == pc[s] \in {"echo", "sync"}

C5_MutualExclusion ==
    \A s, u \in Sources :
        (s # u) => ~(InWriteSection(s) /\ InWriteSection(u))


(***************************************************************************)
(* C6.  Fork-join barrier of Run: a source has been started in the round   *)
(* exactly once if Run has passed its if and its flag is set, and not at   *)
(* all otherwise; every goroutine that exists was started in the current   *)
(* round, so that none of an earlier round is left when a round begins;    *)
(* a source has at most one goroutine.                                     *)
(***************************************************************************)
Pos(x) ==
    CASE x = "Pastebin" -> 1
      [] x = "Debian"   -> 2
      [] x = "Slexy"    -> 3
      [] x = "wait"     -> 4

\* Run has passed the if of source s in the current round
Passed(s) == Pos(s) < Pos(mainpc)

\* the goroutine of s has been started and has not returned
Running(s) == pc[s] \notin {"idle", "done"}

C6_ForkJoin ==
    \A s \in Sources :
        /\ started[s] = IF Passed(s) /\ Enabled(flags, s) THEN 1 ELSE 0
        /\ pc[s] # "idle" => started[s] = 1
        /\ started[s] - dones[s] \in {0, 1}
        /\ Running(s) <=> started[s] - dones[s] = 1

\* two goroutines run in a round that follows a round in which the file
\* was written
C6_Witness ==
    /\ mainpc = "wait"
    /\ Running("Pastebin")
    /\ Running("Debian")
    /\ file # <<>>
    /\ BytesWrote = 0

(***************************************************************************)
(* C7.  With every possible step eventually taken and every request        *)
(* answered, wg.Wait() returns again and again: every round completes and  *)
(* is followed by another.                                                 *)
(***************************************************************************)
C7_RoundsForever == []<><<Wait>>_vars

\* a round in which a listing fetch failed and a listing had no fragment
\* has completed, after an earlier round
C7_Witness ==
    /\ mainpc = "wait"
    /\ wg = 0
    /\ listing["Pastebin"].err = GetErr
    /\ listing["Debian"].err = nil
    /\ raws["Debian"] = <<>>
    /\ pc["Slexy"] = "done"
    /\ nget["Slexy"] = 1
    /\ file # <<>>
    /\ BytesWrote = 0

(***************************************************************************)
(* C8.  When the request of one source is never answered, every other      *)
(* enabled source is still started, runs to its return and signals, and    *)
(* wg.Wait() does not return: no next round begins.                        *)
(***************************************************************************)
OthersDone(h) ==
    /\ mainpc = "wait"
    /\ \A s \in Sources \ {h} : Enabled(flags, s) => pc[s] = "done"

C8_StuckFetch ==
    /\ \A h \in Sources : (h \in stuck) ~> OthersDone(h)
    /\ [][stuck # {} => ~(mainpc = "wait" /\ mainpc' # "wait")]_vars

\* the request of Pastebin hangs and the other two sources have processed
\* a document and returned
C8_Witness ==
    /\ stuck = {"Pastebin"}
    /\ OthersDone("Pastebin")
    /\ nget["Debian"] = 1
    /\ nget["Slexy"] = 1
    /\ wg = 1

(***************************************************************************)
(* C9.  The counter of the WaitGroup is the number of goroutines that      *)
(* have not returned, never negative, and a goroutine that has returned    *)
(* has called wg.Done() exactly once, whatever the path of its return.     *)
(***************************************************************************)
C9_SignalsOnce ==
    /\ wg >= 0
    /\ wg = Cardinality({s \in Sources : Running(s)})
    /\ \A s \in Sources : dones[s] = IF pc[s] = "done" THEN 1 ELSE 0

\* a round has ended with three goroutines returned on three paths: a
\* failed document fetch, a failed listing fetch, all documents processed
C9_Witness ==
    /\ mainpc = "wait"
    /\ wg = 0
    /\ pc["Pastebin"] = "done" /\ ndoc["Pastebin"] = 2 /\ nget["Pastebin"] = 1
    /\ pc["Debian"] = "done" /\ listing["Debian"].err = GetErr
    /\ pc["Slexy"] = "done" /\ nget["Slexy"] = Len(raws["Slexy"])
    /\ raws["Slexy"] # <<>>

(***************************************************************************)
(* C10.  After a failed fetch of its listing page a source has reported,   *)
(* and in that round it fetches no document, calls GetMail zero times and  *)
(* writes nothing to the file.                                             *)
(***************************************************************************)
ListingFailed(s) == listing[s].err \in {GetErr, ReadErr}

C10_ListingFailureAborts ==
    \A s \in Sources :
        ListingFailed(s) =>
            /\ errs[s] # <<>>
            /\ ndoc[s] = 0
            /\ nget[s] = 0
            /\ wrote[s] = <<>>


(***************************************************************************)
(* C11.  When FetchPage fails for the document of the i-th fragment of a   *)
(* source, the documents of the fragments 1..i-1 have been fetched in the  *)
(* order of raws and each handed to GetMail, in that order; the page of    *)
(* the failing call is not handed to GetMail; and the failing call is the  *)
(* last fetch of the goroutine in the round, which has returned.           *)
(***************************************************************************)
C11_DocFailureAborts ==
    \A s \in Sources : \A i \in 1..Len(fetched[s]) :
        fetched[s][i].err # nil =>
            /\ \A j \in 1..i :
                  /\ fetched[s][j].v = j
                  /\ fetched[s][j].url = ParsedOf[s][raws[s][j]].rawlink
            /\ \A j \in 1..(i - 1) :
                  /\ fetched[s][j].err = nil
                  /\ fetched[s][j].handed = j
            /\ fetched[s][i].handed = 0
            /\ nget[s] = i - 1
            /\ Len(fetched[s]) = i
            /\ ndoc[s] = i
            /\ pc[s] = "done"

\* the read of the second of two documents failed after data had arrived
C11_Witness ==
    /\ Len(fetched["Pastebin"]) = 2
    /\ fetched["Pastebin"][2].err = ReadErr
    /\ result["Pastebin"].page # <<>>
    /\ nget["Pastebin"] = 1
    /\ Len(raws["Pastebin"]) = 2

(***************************************************************************)
(* C13.  Whenever FetchPage returns a non-nil error, the page it returns   *)
(* is empty and FetchPage itself has reported the error.                   *)
(***************************************************************************)
NotOk(r) == r.err \notin {nil, "-"}

C13_FailureReportedEmpty ==
    \A s \in Sources :
        NotOk(result[s]) =>
            /\ result[s].page = <<>>
            /\ result[s].reports = <<result[s].err>>

(***************************************************************************)
(* C14.  FreshFilter returns exactly the candidates of its argument, in    *)
(* their order and with duplicates kept, that contain a "." and none of    *)
(* ".png", ".gif", ".jpg", "._", "@." and are not equal to an entry of     *)
(* the blacklist.                                                          *)
(***************************************************************************)
RejectedSubstrings ==
    { <<".", "p", "n", "g">>,
      <<".", "g", "i", "f">>,
      <<".", "j", "p", "g">>,
      <<".", "_">>,
      <<"@", ".">> }

BlacklistEntries ==
    { <<"f", "o", "r", "m", "o", "r", "e", "r", "@", "d", "e", "b", "i", "a", "n", ".", "o", "r", "g">>,
      <<"u", "s", "e", "r", "@", "u", "s", "e", "r">> }

Keeps(c) ==
    /\ Contains(c, <<".">>)
    /\ \A bad \in RejectedSubstrings : ~Contains(c, bad)
    /\ c \notin BlacklistEntries

C14_FilterKeepsSublist ==
    call.returned => call.fresh = SelectSeq(call.mails, Keeps)

\* a list with a duplicate around a blacklisted address has been filtered
C14_Witness ==
    /\ call.returned
    /\ Len(call.mails) = 3
    /\ call.mails[1] = call.mails[3]
    /\ call.mails[2] \in BlacklistEntries
    /\ Contains(call.mails[2], <<".">>)
    /\ call.fresh = <<call.mails[1], call.mails[3]>>

(***************************************************************************)
(* C15.  The listing page of Pastebin is the one fragment                  *)
(* class="i_p0" alt="" /><a href="/abc123"> and the document fetched for   *)
(* it is "contact me at alice@example.com or see logo.png@site.x".  As     *)
(* claimed, fresh of that GetMail call is the one address                  *)
(* alice@example.com.  As amended, it is alice@example.com followed by     *)
(* png@site.x, the match the pattern finds in logo.png@site.x.             *)
(***************************************************************************)
Alice == <<"a", "l", "i", "c", "e", "@", "e", "x", "a", "m", "p", "l", "e", ".", "c", "o", "m">>
PngAtSite == <<"p", "n", "g", "@", "s", "i", "t", "e", ".", "x">>
Abc123 == <<"h", "t", "t", "p", "s", ":", "/", "/", "p", "a", "s", "t", "e", "b", "i", "n", ".", "c", "o", "m", "/", "r", "a", "w", "/", "a", "b", "c", "1", "2", "3">>

\* the goroutine of Pastebin is in GetMail(Contact) for that listing page
InScenario ==
    /\ listing["Pastebin"].err = nil
    /\ listing["Pastebin"].page = Frag1("Pastebin")
    /\ doc["Pastebin"] = Contact

C15_OneFreshAddress ==
    InScenario => filtered["Pastebin"] = <<Alice>>

C15_TwoFreshAddresses ==
    InScenario =>
        /\ raws["Pastebin"] = <<Frag1("Pastebin")>>
        /\ url["Pastebin"] = Abc123
        /\ filtered["Pastebin"] = <<Alice, PngAtSite>>

C15_Witness ==
    /\ InScenario
    /\ pc["Pastebin"] = "ret"
    /\ nget["Pastebin"] = 1

(***************************************************************************)
(* C16.  Every step leaves the content of the log a prefix of the new      *)
(* content, and every line of the log is a non-empty candidate that the    *)
(* candidate filter keeps.                                                 *)
(***************************************************************************)
IsPrefix(a, b) == Len(a) <= Len(b) /\ SubSeq(b, 1, Len(a)) = a

FreshAddress(line) == line # <<>> /\ IsCandidate(line) /\ ~Rejected(line)

C16_AppendOnlyAddressLines ==
    [][/\ IsPrefix(file, file')
       /\ \A i \in 1..Len(Lines(file')) : FreshAddress(Lines(file')[i])]_vars

(***************************************************************************)
(* C17.  A call of FreshFilter writes nothing: not to standard output,     *)
(* not to the log, not to standard error; and its verdict on a candidate   *)
(* of a list is the verdict on that candidate alone.                       *)
(***************************************************************************)
VerdictAlone(c) == FreshFilter(<<c>>).fresh = <<c>>

C17_FilterPure ==
    call.returned =>
        /\ call.printed = <<>>
        /\ file = <<>>
        /\ \A s \in Sources : out[s] = <<>> /\ errs[s] = <<>>
        /\ call.fresh = SelectSeq(call.mails, VerdictAlone)

(***************************************************************************)
(* C18.  When the listing page was fetched without error and holds no      *)
(* fragment, the goroutine has returned and signalled, has fetched no      *)
(* document, and has reported exactly one line with the flag verbose and   *)
(* none without it.                                                        *)
(***************************************************************************)
EmptyListing(s) == listing[s].err = nil /\ raws[s] = <<>>

C18_EmptyListing ==
    \A s \in Sources :
        EmptyListing(s) =>
            /\ pc[s] = "done"
            /\ dones[s] = 1
            /\ ndoc[s] = 0
            /\ fetched[s] = <<>>
            /\ nget[s] = 0
            /\ Len(errs[s]) = IF flags.verbose THEN 1 ELSE 0

\* with the flag verbose the one line is reported, and the line FetchPage
\* prints is on standard output
C18_Witness ==
    /\ flags.verbose
    /\ EmptyListing("Pastebin")
    /\ errs["Pastebin"] = <<"no raw link">>
    /\ Len(out["Pastebin"]) = 1

(***************************************************************************)
(* C19.  Without the flag verbose, the lines a goroutine has reported in   *)
(* the round are exactly one for each failure it met: a failed fetch of    *)
(* the listing page, a failed fetch of a document, a fragment it could     *)
(* not parse.                                                              *)
(***************************************************************************)
ListingFailures(s) == IF NotOk(listing[s]) THEN 1 ELSE 0

DocFailures(s) == Cardinality({i \in 1..Len(fetched[s]) : fetched[s][i].err # nil})

ParseFailures(s) ==
    IF /\ pc[s] = "done"
       /\ idx[s] \in 1..Len(raws[s])
       /\ ParsedOf[s][raws[s][idx[s]]].cant
    THEN 1 ELSE 0

C19_OneLinePerFailure ==
    ~flags.verbose =>
        \A s \in Sources :
            Len(errs[s]) = ListingFailures(s) + DocFailures(s) + ParseFailures(s)

(***************************************************************************)
(* C20.  When a round completes (every goroutine of the round has          *)
(* returned and wg.Wait() is about to return), every resp.Body a           *)
(* goroutine of the round got from client.Get has been closed.  A body is  *)
(* taken as released when the program closes it, as net/http asks of the   *)
(* caller of client.Get.                                                   *)
(***************************************************************************)
RoundComplete == mainpc = "wait" /\ wg = 0

C20_BodiesReleased ==
    RoundComplete => \A s \in Sources : unclosed[s] = 0

=============================================================================
